---- MODULE Spec2Model ----
(***************************************************************************)
(* Model of the prompt-validation gateway (src/index.js): the Lambda       *)
(* handler, its router, the single and batch decision pipelines, the       *)
(* moderation client (validatePrompt) and the forwarding client            *)
(* (forwardToVideoService).                                                *)
(*                                                                         *)
(* JavaScript values are modelled as tagged records [k |-> kind, v |-> _]. *)
(* JavaScript strings are TLA+ strings; JSON.parse and JSON.stringify are  *)
(* computed character by character over them.  The JSON subset covered is  *)
(* objects, arrays, strings whose escapes are those of the quote, the      *)
(* backslash and the slash, unsigned integers, true, false, null and       *)
(* blanks; every text the model feeds to the parser is either inside that  *)
(* subset or is not JSON at all.                                           *)
(***************************************************************************)
EXTENDS Integers, Sequences, FiniteSets, TLC

\* ------------------------------------------------------------------------
\* JavaScript values
\* ------------------------------------------------------------------------
Undef == [k |-> "undef"]
Null == [k |-> "null"]
Bool(b) == [k |-> "bool", v |-> b]
Num(n) == [k |-> "num", v |-> n]
Str(s) == [k |-> "str", v |-> s]
Arr(items) == [k |-> "arr", v |-> items]
Obj(members) == [k |-> "obj", v |-> members]
Member(key, val) == [key |-> key, val |-> val]

\* JavaScript truthiness (ToBoolean), as used by !x, x || y and x && y.
Truthy(x) ==
  CASE x.k = "undef" -> FALSE
    [] x.k = "null" -> FALSE
    [] x.k = "bool" -> x.v
    [] x.k = "num" -> x.v # 0
    [] x.k = "str" -> x.v # ""
    [] OTHER -> TRUE

\* a || b
Or(a, b) == IF Truthy(a) THEN a ELSE b

\* Property read x.key.  Reading a property of undefined or null throws a
\* TypeError: the callers test Throws(x) first.  A property of a primitive
\* that the model never defines reads as undefined.
Throws(x) == x.k \in {"undef", "null"}

HasKey(o, key) == o.k = "obj" /\ \E i \in 1..Len(o.v) : o.v[i].key = key

Get(o, key) ==
  IF HasKey(o, key)
  THEN o.v[CHOOSE i \in 1..Len(o.v) : o.v[i].key = key].val
  ELSE Undef

\* Optional chaining x?.key
OptGet(x, key) == IF Throws(x) THEN Undef ELSE Get(x, key)

\* Property write, keeping the position of a key that is already there.
Put(members, key, val) ==
  IF \E i \in 1..Len(members) : members[i].key = key
  THEN [i \in 1..Len(members) |->
          IF members[i].key = key THEN Member(key, val) ELSE members[i]]
  ELSE Append(members, Member(key, val))

\* ------------------------------------------------------------------------
\* JSON.parse
\* ------------------------------------------------------------------------
Char(s, i) == IF i >= 1 /\ i <= Len(s) THEN SubSeq(s, i, i) ELSE ""

StartsWith(s, i, word) ==
  /\ i + Len(word) - 1 <= Len(s)
  /\ SubSeq(s, i, i + Len(word) - 1) = word

Digits == {"0", "1", "2", "3", "4", "5", "6", "7", "8", "9"}

DigitVal(c) ==
  CASE c = "0" -> 0 [] c = "1" -> 1 [] c = "2" -> 2 [] c = "3" -> 3
    [] c = "4" -> 4 [] c = "5" -> 5 [] c = "6" -> 6 [] c = "7" -> 7
    [] c = "8" -> 8 [] c = "9" -> 9

RECURSIVE SkipWs(_, _)
SkipWs(s, i) == IF Char(s, i) = " " THEN SkipWs(s, i + 1) ELSE i

Fail == [ok |-> FALSE, val |-> Undef, pos |-> 0]
Parsed(val, pos) == [ok |-> TRUE, val |-> val, pos |-> pos]

\* The position of the first quote or backslash at or after j, or past the
\* end of the text when there is none.
RECURSIVE StringEnd(_, _)
StringEnd(s, j) ==
  IF j > Len(s) \/ Char(s, j) \in {"\"", "\\"} THEN j ELSE StringEnd(s, j + 1)

\* The characters of a string literal from j on, acc being those read so
\* far: up to the closing quote, a backslash taking the quote, backslash or
\* slash after it as a plain character.
RECURSIVE ParseChars(_, _, _)
ParseChars(s, j, acc) ==
  LET e == StringEnd(s, j) IN
  CASE e > Len(s) -> Fail
    [] Char(s, e) = "\"" -> Parsed(Str(acc \o SubSeq(s, j, e - 1)), e + 1)
    [] Char(s, e + 1) \in {"\"", "\\", "/"} ->
         ParseChars(s, e + 2, acc \o SubSeq(s, j, e - 1) \o Char(s, e + 1))
    [] OTHER -> Fail

\* A string literal opening at i.
ParseString(s, i) == ParseChars(s, i + 1, "")

RECURSIVE NumberEnd(_, _)
NumberEnd(s, i) == IF Char(s, i) \in Digits THEN NumberEnd(s, i + 1) ELSE i

RECURSIVE DigitsVal(_, _, _)
DigitsVal(s, i, j) ==
  IF j < i THEN 0 ELSE DigitsVal(s, i, j - 1) * 10 + DigitVal(Char(s, j))

\* An unsigned integer; a leading zero ends the number.
ParseNumber(s, i) ==
  IF Char(s, i) = "0" THEN Parsed(Num(0), i + 1)
  ELSE LET e == NumberEnd(s, i) IN Parsed(Num(DigitsVal(s, i, e - 1)), e)

RECURSIVE ParseValue(_, _)
RECURSIVE ParseElements(_, _, _)
RECURSIVE ParseMembers(_, _, _)

\* Elements of an array after "[" or after a comma; i is at an element.
ParseElements(s, i, acc) ==
  LET r == ParseValue(s, SkipWs(s, i)) IN
  IF ~r.ok THEN Fail
  ELSE LET p == SkipWs(s, r.pos) IN
       CASE Char(s, p) = "," -> ParseElements(s, p + 1, Append(acc, r.val))
         [] Char(s, p) = "]" -> Parsed(Arr(Append(acc, r.val)), p + 1)
         [] OTHER -> Fail

\* Members of an object after "{" or after a comma; a repeated key keeps
\* its first position and takes the last value.
ParseMembers(s, i, acc) ==
  LET p == SkipWs(s, i) IN
  IF Char(s, p) # "\"" THEN Fail
  ELSE LET key == ParseString(s, p) IN
       IF ~key.ok THEN Fail
       ELSE LET c == SkipWs(s, key.pos) IN
            IF Char(s, c) # ":" THEN Fail
            ELSE LET r == ParseValue(s, SkipWs(s, c + 1)) IN
                 IF ~r.ok THEN Fail
                 ELSE LET q == SkipWs(s, r.pos)
                          members == Put(acc, key.val.v, r.val) IN
                      CASE Char(s, q) = "," -> ParseMembers(s, q + 1, members)
                        [] Char(s, q) = "}" -> Parsed(Obj(members), q + 1)
                        [] OTHER -> Fail

ParseValue(s, i) ==
  LET c == Char(s, i) IN
  CASE c = "{" ->
         (LET p == SkipWs(s, i + 1) IN
          IF Char(s, p) = "}" THEN Parsed(Obj(<<>>), p + 1)
          ELSE ParseMembers(s, p, <<>>))
    [] c = "[" ->
         (LET p == SkipWs(s, i + 1) IN
          IF Char(s, p) = "]" THEN Parsed(Arr(<<>>), p + 1)
          ELSE ParseElements(s, p, <<>>))
    [] c = "\"" -> ParseString(s, i)
    [] c \in Digits -> ParseNumber(s, i)
    [] StartsWith(s, i, "true") -> Parsed(Bool(TRUE), i + 4)
    [] StartsWith(s, i, "false") -> Parsed(Bool(FALSE), i + 5)
    [] StartsWith(s, i, "null") -> Parsed(Null, i + 4)
    [] OTHER -> Fail

\* JSON.parse(text): ok = FALSE stands for the SyntaxError it throws.
JSONparse(text) ==
  LET r == ParseValue(text, SkipWs(text, 1)) IN
  IF r.ok /\ SkipWs(text, r.pos) = Len(text) + 1
  THEN [ok |-> TRUE, val |-> r.val]
  ELSE [ok |-> FALSE, val |-> Undef]

\* ------------------------------------------------------------------------
\* JSON.stringify
\* ------------------------------------------------------------------------
\* A string as a literal: quotes and backslashes take a backslash.
RECURSIVE Escape(_, _)
Escape(s, j) ==
  LET e == StringEnd(s, j) IN
  IF e > Len(s) THEN SubSeq(s, j, Len(s))
  ELSE SubSeq(s, j, e - 1) \o "\\" \o Char(s, e) \o Escape(s, e + 1)

Quote(s) == "\"" \o Escape(s, 1) \o "\""

RECURSIVE JSONstringify(_)
RECURSIVE JoinItems(_, _)
RECURSIVE JoinMembers(_, _)

JoinItems(items, i) ==
  IF i > Len(items) THEN ""
  ELSE (IF i > 1 THEN "," ELSE "")
       \o (IF items[i].k = "undef" THEN "null" ELSE JSONstringify(items[i]))
       \o JoinItems(items, i + 1)

\* Members whose value is undefined are left out.
JoinMembers(members, first) ==
  IF members = <<>> THEN ""
  ELSE LET m == Head(members) IN
       IF m.val.k = "undef" THEN JoinMembers(Tail(members), first)
       ELSE (IF first THEN "" ELSE ",")
            \o Quote(m.key) \o ":" \o JSONstringify(m.val)
            \o JoinMembers(Tail(members), FALSE)

JSONstringify(x) ==
  CASE x.k = "null" -> "null"
    [] x.k = "bool" -> (IF x.v THEN "true" ELSE "false")
    [] x.k = "num" -> ToString(x.v)
    [] x.k = "str" -> Quote(x.v)
    [] x.k = "arr" -> "[" \o JoinItems(x.v, 1) \o "]"
    [] x.k = "obj" -> "{" \o JoinMembers(x.v, TRUE) \o "}"

\* String(x), as a template literal `${x}` computes it.
RECURSIVE ToStr(_)
RECURSIVE JoinToStr(_, _, _)
JoinToStr(items, i, sep) ==
  IF i > Len(items) THEN ""
  ELSE (IF i > 1 THEN sep ELSE "")
       \o (IF items[i].k \in {"undef", "null"} THEN "" ELSE ToStr(items[i]))
       \o JoinToStr(items, i + 1, sep)

ToStr(x) ==
  CASE x.k = "undef" -> "undefined"
    [] x.k = "null" -> "null"
    [] x.k = "bool" -> (IF x.v THEN "true" ELSE "false")
    [] x.k = "num" -> ToString(x.v)
    [] x.k = "str" -> x.v
    [] x.k = "arr" -> JoinToStr(x.v, 1, ",")
    [] x.k = "obj" -> "[object Object]"

\* ------------------------------------------------------------------------
\* MODERATION_CONFIG
\* ------------------------------------------------------------------------
guardrailId == "your-guardrail-id"
guardrailVersion == "DRAFT"
videoServiceUrl == "https://your-video-service.com/generate"
messages_blocked == "Content violates our community guidelines"
messages_error == "Unable to validate content at this time"
enableLogging == TRUE

\* ------------------------------------------------------------------------
\* createResponse
\* ------------------------------------------------------------------------
ResponseHeaders ==
  [h \in {"Content-Type", "Access-Control-Allow-Origin",
          "Access-Control-Allow-Headers", "Access-Control-Allow-Methods"} |->
     CASE h = "Content-Type" -> "application/json"
       [] h = "Access-Control-Allow-Origin" -> "*"
       [] h = "Access-Control-Allow-Headers" -> "Content-Type"
       [] h = "Access-Control-Allow-Methods" -> "POST, GET, OPTIONS"]

createResponse(statusCode, body) ==
  [statusCode |-> statusCode,
   headers |-> ResponseHeaders,
   body |-> JSONstringify(body)]

\* No response yet.
NoResponse == [statusCode |-> 0, headers |-> ResponseHeaders, body |-> ""]

\* ------------------------------------------------------------------------
\* validatePrompt: the moderation client
\* ------------------------------------------------------------------------
\* The ApplyGuardrailCommand input built for a prompt.
GuardrailCommand(prompt) ==
  [guardrailIdentifier |-> guardrailId,
   guardrailVersion |-> guardrailVersion,
   source |-> "INPUT",
   text |-> prompt]

\* An outcome of bedrockClient.send: a response object, or a thrown Error.
Resolved(value) == [threw |-> FALSE, value |-> value]
Thrown(message) ==
  [threw |-> TRUE, value |-> Obj(<<Member("message", Str(message))>>)]

\* A catch block that lets the prompt through.
FailOpen(error) ==
  Obj(<<Member("allowed", Bool(TRUE)),
        Member("reason", Str("Validation service unavailable")),
        Member("error", Get(error, "message"))>>)

\* A catch block that gives the fault's message as the reason.
FailClosed_faultReason(error) ==
  Obj(<<Member("allowed", Bool(FALSE)),
        Member("reason", Get(error, "message")),
        Member("error", Get(error, "message"))>>)

\* The fail-closed verdict of the catch block.
FailClosed(error) ==
  Obj(<<Member("allowed", Bool(FALSE)),
        Member("reason", Str("Validation service unavailable")),
        Member("error", Get(error, "message"))>>)

\* `${assessment.type}: ${assessment.guardrailCoverage?.type || 'unknown'}`
Descriptor(assessment) ==
  ToStr(Get(assessment, "type")) \o ": "
    \o ToStr(Or(OptGet(Get(assessment, "guardrailCoverage"), "type"),
                Str("unknown")))

\* response.assessments?.map(...).join(', ') throws when the assessments
\* value has no map method or one of its elements is undefined or null.
ReasonsThrow(assessments) ==
  \/ assessments.k \notin {"undef", "null", "arr"}
  \/ /\ assessments.k = "arr"
     /\ \E i \in 1..Len(assessments.v) : Throws(assessments.v[i])

RECURSIVE JoinDescriptors(_, _)
JoinDescriptors(items, i) ==
  IF i > Len(items) THEN ""
  ELSE (IF i > 1 THEN ", " ELSE "")
       \o Descriptor(items[i]) \o JoinDescriptors(items, i + 1)

\* The joined descriptors without the fallback reason.
Reasons_noFallback(assessments) ==
  IF Throws(assessments) THEN Undef
  ELSE Str(JoinDescriptors(assessments.v, 1))

Reasons(assessments) ==
  IF Throws(assessments) THEN Str("Policy violation")
  ELSE Or(Str(JoinDescriptors(assessments.v, 1)), Str("Policy violation"))

\* The TypeError the engine throws, with the engine's own message.
TypeError(message) == Obj(<<Member("message", Str(message))>>)

\* The message of a property read on undefined or null.
CannotRead(x, property) ==
  "Cannot read properties of "
    \o (IF x.k = "undef" THEN "undefined" ELSE "null")
    \o " (reading '" \o property \o "')"

\* The message of the fault ReasonsThrow detects: a value without a map
\* method, or the first element whose type cannot be read.
ReasonsFault(assessments) ==
  IF assessments.k # "arr"
  THEN "response.assessments?.map is not a function"
  ELSE LET first == CHOOSE i \in 1..Len(assessments.v) :
                      /\ Throws(assessments.v[i])
                      /\ \A j \in 1..(i - 1) : ~Throws(assessments.v[j]) IN
       CannotRead(assessments.v[first], "type")

\* A client that looks for an action the decision service never reports.
validatePrompt_wrongAction(outcome) ==
  IF outcome.threw THEN FailClosed(outcome.value)
  ELSE IF Get(outcome.value, "action") = Str("BLOCKED")
       THEN Obj(<<Member("allowed", Bool(FALSE)),
                  Member("reason", Reasons(Get(outcome.value, "assessments"))),
                  Member("details", Get(outcome.value, "assessments"))>>)
       ELSE Obj(<<Member("allowed", Bool(TRUE)),
                  Member("reason", Str("Content approved"))>>)

\* The verdict validatePrompt returns once bedrockClient.send has settled.
validatePrompt(outcome) ==
  IF outcome.threw THEN FailClosed(outcome.value)
  ELSE LET response == outcome.value IN
       IF Throws(response)
       THEN FailClosed(TypeError(CannotRead(response, "action")))
       ELSE IF Get(response, "action") = Str("GUARDRAIL_INTERVENED")
       THEN IF ReasonsThrow(Get(response, "assessments"))
            THEN FailClosed(TypeError(
                   ReasonsFault(Get(response, "assessments"))))
            ELSE Obj(<<Member("allowed", Bool(FALSE)),
                       Member("reason", Reasons(Get(response, "assessments"))),
                       Member("details", Get(response, "assessments"))>>)
       ELSE Obj(<<Member("allowed", Bool(TRUE)),
                  Member("reason", Str("Content approved"))>>)

\* ------------------------------------------------------------------------
\* forwardToVideoService: the forwarding client
\* ------------------------------------------------------------------------
\* The request handed to fetch.
FetchRequest(originalEvent) ==
  LET auth == OptGet(Get(originalEvent, "headers"), "authorization") IN
  [url |-> videoServiceUrl,
   method |-> "POST",
   headers |->
     Obj(IF Truthy(auth)
         THEN <<Member("Content-Type", Str("application/json")),
                Member("Authorization", auth)>>
         ELSE <<Member("Content-Type", Str("application/json"))>>),
   body |-> Get(originalEvent, "body")]

\* An outcome of fetch and response.text(): the downstream answer, or a
\* rejection of either promise.
Answered(status, text) == [threw |-> FALSE, status |-> status, text |-> text]
Rejected == [threw |-> TRUE, status |-> 0, text |-> ""]

\* A forwarding client that reports a connection failure as a plain 500.
forwardToVideoService_500(outcome) ==
  IF outcome.threw
  THEN createResponse(500,
         Obj(<<Member("success", Bool(FALSE)),
               Member("message", Str("Internal server error"))>>))
  ELSE LET parsed == JSONparse(outcome.text)
           parsedData == IF parsed.ok THEN parsed.val
                         ELSE Obj(<<Member("message", Str(outcome.text))>>) IN
       createResponse(outcome.status, parsedData)

\* A forwarding client that wraps every downstream body as a message.
forwardToVideoService_wraps(outcome) ==
  IF outcome.threw
  THEN createResponse(502,
         Obj(<<Member("success", Bool(FALSE)),
               Member("message", Str("Video service unavailable")),
               Member("error",
                      Str("Failed to connect to video generation service"))>>))
  ELSE createResponse(outcome.status,
                      Obj(<<Member("message", Str(outcome.text))>>))

\* The envelope forwardToVideoService returns once fetch and
\* response.text() have settled.
forwardToVideoService(outcome) ==
  IF outcome.threw
  THEN createResponse(502,
         Obj(<<Member("success", Bool(FALSE)),
               Member("message", Str("Video service unavailable")),
               Member("error",
                      Str("Failed to connect to video generation service"))>>))
  ELSE LET parsed == JSONparse(outcome.text)
           parsedData == IF parsed.ok THEN parsed.val
                         ELSE Obj(<<Member("message", Str(outcome.text))>>) IN
       createResponse(outcome.status, parsedData)

\* ------------------------------------------------------------------------
\* Bounds and inputs
\* ------------------------------------------------------------------------
\* Longest prompts array the model enumerates item by item.
MaxBatch == 2

\* Length at which a batch preview is cut (prompt.substring(0, 100)).
PreviewLen == 100

RECURSIVE Repeat(_, _)
Repeat(c, n) == IF n = 0 THEN "" ELSE c \o Repeat(c, n - 1)

\* Prompts whose lengths lie around the preview cut.
LongPrompts == {Repeat("a", n) : n \in (PreviewLen - 1)..(PreviewLen + 2)}

\* Items of the enumerated prompts arrays: strings and a non-string.
BatchItems == {Str("sunset"), Str(""), Num(7)}

RECURSIVE SeqsUpTo(_, _)
SeqsUpTo(S, n) ==
  IF n = 0 THEN {<<>>}
  ELSE LET shorter == SeqsUpTo(S, n - 1) IN
       shorter \cup {Append(q, e) : q \in {r \in shorter : Len(r) = n - 1},
                                     e \in S}

PromptsBody(items) == "{\"prompts\":" \o JSONstringify(Arr(items)) \o "}"

\* Raw request bodies.
ValidPromptBody == "{\"prompt\":\"Create a sunset video\"}"

SingleBodies ==
  {ValidPromptBody,
   "{ \"prompt\" : \"hi\" , \"style\" : \"noir\" }",
   "{\"prompt\":\"\"}",
   "{\"prompt\":\"a\",\"prompt\":\"\"}",
   "{}",
   "{\"prompt\":5}",
   "{\"prompt\":0}",
   "{\"prompt\":null}",
   "{\"prompt\":true}",
   "{\"prompt\":[\"a\"]}",
   "{\"prompt\":{\"text\":\"a\"}}",
   "\"sunset\"",
   "[]",
   "7",
   "null",
   "not json",
   "{\"prompt\":",
   ""}

BatchBodies ==
  {PromptsBody(items) : items \in SeqsUpTo(BatchItems, MaxBatch)}
    \cup {PromptsBody(<<Str(p)>>) : p \in LongPrompts}
    \cup {PromptsBody(<<Null, Str("sunset")>>),
          "{ \"prompts\" : [ \"sunset\" , \"\" ] }",
          "{\"prompts\":\"not-an-array\"}",
          "{\"prompts\":null}",
          "{\"prompts\":{\"0\":\"a\"}}",
          "{\"prompts\":3}",
          "{}",
          "null",
          "not json",
          ""}

\* Values of event.body.
BodyValues ==
  {Str(b) : b \in SingleBodies \cup BatchBodies} \cup {Undef, Null}

MethodValues == {Undef, Str("POST"), Str("GET"), Str("OPTIONS")}
AltMethodValues == {Undef, Str("POST"), Str("OPTIONS")}
PathValues ==
  {Undef, Str("/validate"), Str("/validate-batch"), Str("/health"),
   Str("/config"), Str("/unknown-route")}
AltPathValues == {Undef, Str("/validate"), Str("/validate-batch")}

HeaderValues ==
  {Undef,
   Obj(<<>>),
   Obj(<<Member("authorization", Str("Bearer t0k"))>>),
   Obj(<<Member("Authorization", Str("Bearer t0k"))>>),
   Obj(<<Member("authorization", Str("")), Member("x-trace", Str("1"))>>)}

\* An inbound event: the API Gateway fields the handler reads.
Event(httpMethod, method, ctxMethod, path, rawPath, headers, body) ==
  Obj(<<Member("httpMethod", httpMethod),
        Member("method", method),
        Member("requestContext",
               IF ctxMethod = Undef THEN Undef
               ELSE Obj(<<Member("http",
                                 Obj(<<Member("method", ctxMethod)>>))>>)),
        Member("path", path),
        Member("rawPath", rawPath),
        Member("headers", headers),
        Member("body", body)>>)

\* Every way of presenting a method and a path, with one valid body.
RoutingEvents ==
  {Event(hm, m, cm, p, rp, Undef, Str(ValidPromptBody)) :
     hm \in MethodValues, m \in AltMethodValues, cm \in AltMethodValues,
     p \in PathValues, rp \in AltPathValues}

\* Preflight requests with every path and body.
PreflightEvents ==
  {Event(Str("OPTIONS"), Undef, Undef, p, Undef, h, b) :
     p \in PathValues, h \in {Undef, Obj(<<>>)}, b \in BodyValues}

\* Single validations with every body and header map.
ValidationEvents ==
  {Event(Str("POST"), Undef, Undef, Str("/validate"), Undef, h, b) :
     h \in HeaderValues, b \in BodyValues}

\* Batch validations with every body.
BatchEvents ==
  {Event(Str("POST"), Undef, Undef, Str("/validate-batch"), Undef, Undef, b) :
     b \in BodyValues}

\* Events that are not objects.
BareEvents == {Null, Undef, Str("ping"), Num(7)}

Events ==
  RoutingEvents \cup PreflightEvents \cup ValidationEvents
    \cup BatchEvents \cup BareEvents

\* What the decision service can answer to one ApplyGuardrail call.
Assessment(type, coverage) ==
  Obj(<<Member("type", Str(type)),
        Member("guardrailCoverage", Obj(<<Member("type", Str(coverage))>>))>>)

Intervened(assessments) ==
  Resolved(Obj(<<Member("action", Str("GUARDRAIL_INTERVENED")),
                 Member("assessments", assessments)>>))

ModerationOutcomes ==
  {Resolved(Obj(<<Member("action", Str("NONE"))>>)),
   Intervened(Undef),
   Intervened(Arr(<<>>)),
   Intervened(Arr(<<Assessment("HARMFUL_CONTENT", "violence")>>)),
   Intervened(Arr(<<Assessment("HARMFUL_CONTENT", "violence"), Obj(<<>>)>>)),
   Intervened(Arr(<<Null>>)),
   Thrown("Request timed out")}

\* What the downstream service can answer to one fetch.
DownstreamStatuses == {200, 422, 500, 502}
DownstreamTexts ==
  {"{\"success\":true,\"video_url\":\"https://v/1\"}",
   "{ \"success\" : true }",
   "Bad Gateway",
   "{\"success\":",
   ""}

\* Values of new Date().toISOString() in the health payload.
Timestamps == {"2024-01-01T00:00:00.000Z", "2024-01-01T00:00:01.000Z"}

\* ------------------------------------------------------------------------
\* State
\* ------------------------------------------------------------------------
VARIABLES
  event,       \* the inbound event of this invocation
  pc,          \* where the handler stands: start, validating, forwarding
               \* (fetch awaited), reading (response.text() awaited),
               \* batch, done (response returned), escaped (handler threw)
  route,       \* the branch of the router taken
  response,    \* the envelope the handler returned
  modCalls,    \* commands sent with bedrockClient.send, in call order
  modOutcomes, \* what each of them settled with
  modSettled,  \* the calls that have settled
  fwdCalls,    \* requests handed to fetch, in call order
  fwdOutcomes, \* what each of them settled with
  fetched,     \* statuses of the responses fetch resolved with
  log          \* collaborator calls and settlements, in the order they happen

vars ==
  <<event, pc, route, response, modCalls, modOutcomes, modSettled,
    fwdCalls, fwdOutcomes, fetched, log>>

Entry(op, i) == [op |-> op, i |-> i]

Unsettled == Resolved(Undef)

Init ==
  /\ event \in Events
  /\ pc = "start"
  /\ route = "none"
  /\ response = NoResponse
  /\ modCalls = <<>>
  /\ modOutcomes = <<>>
  /\ modSettled = {}
  /\ fwdCalls = <<>>
  /\ fwdOutcomes = <<>>
  /\ fetched = <<>>
  /\ log = <<>>

\* ------------------------------------------------------------------------
\* exports.handler: the router
\* ------------------------------------------------------------------------
\* event.path || event.rawPath || '/'
Path(e) == Or(Or(Get(e, "path"), Get(e, "rawPath")), Str("/"))

\* A router that knows the method only as event.httpMethod.
Method_httpOnly(e) == Or(Get(e, "httpMethod"), Str("GET"))

\* event.httpMethod || event.requestContext?.http?.method || 'GET'
Method(e) ==
  Or(Or(Get(e, "httpMethod"),
        OptGet(OptGet(Get(e, "requestContext"), "http"), "method")),
     Str("GET"))

\* event.httpMethod === 'OPTIONS'
IsPreflight(e) == Get(e, "httpMethod") = Str("OPTIONS")

\* A router that matches GET routes on the path alone.
Route_pathOnly(e) ==
  CASE Throws(e) -> "escaped"
    [] IsPreflight(e) -> "preflight"
    [] Method(e) = Str("POST") /\ Path(e) = Str("/validate") -> "validate"
    [] Method(e) = Str("POST") /\ Path(e) = Str("/validate-batch") -> "batch"
    [] Path(e) = Str("/health") -> "health"
    [] Path(e) = Str("/config") -> "config"
    [] OTHER -> "notfound"

\* The branch of the router an event takes.
Route(e) ==
  CASE Throws(e) -> "escaped"
    [] IsPreflight(e) -> "preflight"
    [] Method(e) = Str("POST") /\ Path(e) = Str("/validate") -> "validate"
    [] Method(e) = Str("POST") /\ Path(e) = Str("/validate-batch") -> "batch"
    [] Method(e) = Str("GET") /\ Path(e) = Str("/health") -> "health"
    [] Method(e) = Str("GET") /\ Path(e) = Str("/config") -> "config"
    [] OTHER -> "notfound"

Respond(r) ==
  /\ response' = r
  /\ pc' = "done"

NoCalls ==
  UNCHANGED <<modCalls, modOutcomes, modSettled, fwdCalls, fwdOutcomes,
              fetched, log>>

\* Reading event.httpMethod of an event that is undefined or null throws
\* before the try block is entered: the handler's promise rejects.
handler_throws ==
  /\ pc = "start"
  /\ Route(event) = "escaped"
  /\ pc' = "escaped"
  /\ route' = "escaped"
  /\ UNCHANGED <<event, response>>
  /\ NoCalls

handler_preflight ==
  /\ pc = "start"
  /\ Route(event) = "preflight"
  /\ route' = "preflight"
  /\ Respond(createResponse(200, Obj(<<Member("message", Str("OK"))>>)))
  /\ UNCHANGED event
  /\ NoCalls

handler_notfound ==
  /\ pc = "start"
  /\ Route(event) = "notfound"
  /\ route' = "notfound"
  /\ Respond(createResponse(404,
       Obj(<<Member("success", Bool(FALSE)),
             Member("message", Str("Not found")),
             Member("availableEndpoints", Arr(<<
               Str("POST /validate - Validate and forward to video service"),
               Str("POST /validate-batch - Batch validation (returns results only)"),
               Str("GET /health - Service health check"),
               Str("GET /config - View current configuration")>>))>>)))
  /\ UNCHANGED event
  /\ NoCalls

handleHealth ==
  /\ pc = "start"
  /\ Route(event) = "health"
  /\ route' = "health"
  /\ \E now \in Timestamps :
       Respond(createResponse(200,
         Obj(<<Member("status", Str("healthy")),
               Member("timestamp", Str(now)),
               Member("config",
                      Obj(<<Member("guardrailId", Str(guardrailId)),
                            Member("version", Str(guardrailVersion))>>))>>)))
  /\ UNCHANGED event
  /\ NoCalls

handleConfig ==
  /\ pc = "start"
  /\ Route(event) = "config"
  /\ route' = "config"
  /\ Respond(createResponse(200,
       Obj(<<Member("guardrailId", Str(guardrailId)),
             Member("guardrailVersion", Str(guardrailVersion)),
             Member("loggingEnabled", Bool(enableLogging)),
             Member("messages",
                    Obj(<<Member("blocked", Str(messages_blocked)),
                          Member("error", Str(messages_error))>>))>>)))
  /\ UNCHANGED event
  /\ NoCalls

\* ------------------------------------------------------------------------
\* handleValidation: the single decision pipeline
\* ------------------------------------------------------------------------
\* JSON.parse(event.body || '{}'): parsing, and reading a property of a
\* parsed null, throw into the pipeline's catch block.
ParseBody(e) ==
  LET parsed == JSONparse(ToStr(Or(Get(e, "body"), Str("{}")))) IN
  [fault |-> ~parsed.ok \/ Throws(parsed.val), body |-> parsed.val]

\* A prompt that is truthy and not a string passes this check.
PromptRequired_noTypeCheck(prompt) == ~Truthy(prompt)

\* !prompt || typeof prompt !== 'string'
PromptRequired(prompt) == ~Truthy(prompt) \/ prompt.k # "str"

\* x.length
Length(x) == IF x.k \in {"str", "arr"} THEN Num(Len(x.v)) ELSE Undef

\* prompt.length === 0
PromptEmpty(prompt) == Length(prompt) = Num(0)

\* A catch block that reports the fault's own message.
ValidationFault_leaks ==
  createResponse(500,
    Obj(<<Member("success", Bool(FALSE)),
          Member("allowed", Bool(FALSE)),
          Member("message", Str(messages_error)),
          Member("error", Str("Unexpected token in JSON"))>>))

ValidationFault ==
  createResponse(500,
    Obj(<<Member("success", Bool(FALSE)),
          Member("allowed", Bool(FALSE)),
          Member("message", Str(messages_error)),
          Member("error", Str("Internal server error"))>>))

BadRequest(message) ==
  createResponse(400,
    Obj(<<Member("success", Bool(FALSE)),
          Member("message", Str(message))>>))

Blocked(validation) ==
  createResponse(422,
    Obj(<<Member("success", Bool(FALSE)),
          Member("allowed", Bool(FALSE)),
          Member("message", Str(messages_blocked)),
          Member("details",
                 Obj(<<Member("reason", Get(validation, "reason")),
                       Member("assessments",
                              Or(Get(validation, "details"), Arr(<<>>)))>>))>>))

\* From dispatch to the first await: the input checks, then the call of the
\* moderation client.
handleValidation ==
  /\ pc = "start"
  /\ Route(event) = "validate"
  /\ route' = "validate"
  /\ LET input == ParseBody(event)
         prompt == Get(input.body, "prompt") IN
       CASE input.fault ->
              Respond(ValidationFault) /\ NoCalls
         [] ~input.fault /\ PromptRequired(prompt) ->
              Respond(BadRequest(
                "Invalid request: prompt is required and must be a string"))
                /\ NoCalls
         [] ~input.fault /\ ~PromptRequired(prompt) /\ PromptEmpty(prompt) ->
              Respond(BadRequest("Invalid request: prompt cannot be empty"))
                /\ NoCalls
         [] OTHER ->
              /\ modCalls' = <<GuardrailCommand(prompt)>>
              /\ modOutcomes' = <<Unsettled>>
              /\ log' = Append(log, Entry("moderation_call", 1))
              /\ pc' = "validating"
              /\ UNCHANGED <<response, modSettled, fwdCalls, fwdOutcomes, fetched>>
  /\ UNCHANGED event

\* validatePrompt settles: an allowed verdict calls the forwarding client,
\* any other verdict is answered with the denial.
handleValidation_validated ==
  /\ pc = "validating"
  /\ \E outcome \in ModerationOutcomes :
       LET validation == validatePrompt(outcome) IN
       /\ modOutcomes' = <<outcome>>
       /\ modSettled' = {1}
       /\ IF Truthy(Get(validation, "allowed"))
          THEN /\ fwdCalls' = Append(fwdCalls, FetchRequest(event))
               /\ log' = log \o <<Entry("moderation_settled", 1),
                                  Entry("forward_call", 1)>>
               /\ pc' = "forwarding"
               /\ UNCHANGED response
          ELSE /\ log' = Append(log, Entry("moderation_settled", 1))
               /\ Respond(Blocked(validation))
               /\ UNCHANGED fwdCalls
  /\ UNCHANGED <<event, route, modCalls, fwdOutcomes, fetched>>

\* fetch settles.  A rejection is caught and answered 502; a resolution
\* hands over the downstream response, whose text is then awaited.
handleValidation_fetched ==
  /\ pc = "forwarding"
  /\ \/ /\ fwdOutcomes' = Append(fwdOutcomes, Rejected)
        /\ Respond(forwardToVideoService(Rejected))
        /\ log' = Append(log, Entry("forward_settled", 1))
        /\ UNCHANGED fetched
     \/ \E status \in DownstreamStatuses :
          /\ fetched' = Append(fetched, status)
          /\ pc' = "reading"
          /\ UNCHANGED <<response, fwdOutcomes, log>>
  /\ UNCHANGED <<event, route, modCalls, modOutcomes, modSettled, fwdCalls>>

\* What response.text() settles with, for the response fetch resolved with.
TextOutcomes(status) ==
  {Rejected} \cup {Answered(status, text) : text \in DownstreamTexts}

\* A pipeline that answers 200 whatever the forwarding client returned.
handleValidation_forwarded_ok ==
  /\ pc = "reading"
  /\ \E outcome \in TextOutcomes(fetched[1]) :
       /\ fwdOutcomes' = Append(fwdOutcomes, outcome)
       /\ Respond([forwardToVideoService(outcome) EXCEPT !.statusCode = 200])
  /\ log' = Append(log, Entry("forward_settled", 1))
  /\ UNCHANGED <<event, route, modCalls, modOutcomes, modSettled, fwdCalls,
                 fetched>>

\* response.text() settles: the forwarding client's envelope is the
\* response.
handleValidation_forwarded ==
  /\ pc = "reading"
  /\ \E outcome \in TextOutcomes(fetched[1]) :
       /\ fwdOutcomes' = Append(fwdOutcomes, outcome)
       /\ Respond(forwardToVideoService(outcome))
  /\ log' = Append(log, Entry("forward_settled", 1))
  /\ UNCHANGED <<event, route, modCalls, modOutcomes, modSettled, fwdCalls,
                 fetched>>

\* ------------------------------------------------------------------------
\* handleBatchValidation: the batch decision pipeline
\* ------------------------------------------------------------------------
Min(a, b) == IF a < b THEN a ELSE b

\* A preview that marks a prompt of exactly the cut length as truncated.
Preview_marksAtCut(prompt) ==
  SubSeq(prompt, 1, Min(PreviewLen, Len(prompt)))
    \o (IF Len(prompt) >= PreviewLen THEN "..." ELSE "")

\* prompt.substring(0, 100) + (prompt.length > 100 ? '...' : '')
Preview(prompt) ==
  SubSeq(prompt, 1, Min(PreviewLen, Len(prompt)))
    \o (IF Len(prompt) > PreviewLen THEN "..." ELSE "")

\* prompt.substring is not callable on a prompt that is not a string: the
\* item's callback throws once its verdict is in.
ItemThrows(prompt) == prompt.k # "str"

\* Results numbered from one.
ItemResult_fromOne(index, prompt, validation) ==
  Obj(<<Member("index", Num(index + 1)),
        Member("prompt", Str(Preview(prompt.v))),
        Member("allowed", Get(validation, "allowed")),
        Member("reason", Get(validation, "reason"))>>)

ItemResult(index, prompt, validation) ==
  Obj(<<Member("index", Num(index)),
        Member("prompt", Str(Preview(prompt.v))),
        Member("allowed", Get(validation, "allowed")),
        Member("reason", Get(validation, "reason"))>>)

\* Results collected as the calls settle.
PromiseAll_asSettled(values, settleOrder) ==
  [n \in 1..Len(values) |-> values[settleOrder[n]]]

\* Promise.all fulfils with the values in the order of its input promises,
\* whatever the order in which they settled.
PromiseAll(values, settleOrder) == values

Count(results, wanted) ==
  Cardinality({i \in 1..Len(results) :
                 Truthy(Get(results[i], "allowed")) = wanted})

BatchDone(prompts, results) ==
  createResponse(200,
    Obj(<<Member("success", Bool(TRUE)),
          Member("results", Arr(results)),
          Member("summary",
                 Obj(<<Member("total", Num(Len(prompts))),
                       Member("allowed", Num(Count(results, TRUE))),
                       Member("blocked", Num(Count(results, FALSE)))>>))>>))

BatchFault ==
  createResponse(500,
    Obj(<<Member("success", Bool(FALSE)),
          Member("message", Str("Batch validation failed"))>>))

\* The moderation calls still in flight.
Pending == (1..Len(modCalls)) \ modSettled

\* The indices of the settled moderation calls, in settlement order.
RECURSIVE SettleOrder(_)
SettleOrder(l) ==
  IF l = <<>> THEN <<>>
  ELSE IF Head(l).op = "moderation_settled"
       THEN <<Head(l).i>> \o SettleOrder(Tail(l))
       ELSE SettleOrder(Tail(l))

\* From dispatch to the await of Promise.all: the input check, then one
\* moderation call per item, issued in index order.
handleBatchValidation ==
  /\ pc = "start"
  /\ Route(event) = "batch"
  /\ route' = "batch"
  /\ LET input == ParseBody(event)
         prompts == Get(input.body, "prompts") IN
       CASE input.fault ->
              Respond(BatchFault) /\ NoCalls
         [] ~input.fault /\ prompts.k # "arr" ->
              Respond(BadRequest("Invalid request: prompts must be an array"))
                /\ NoCalls
         [] ~input.fault /\ prompts.k = "arr" /\ prompts.v = <<>> ->
              Respond(BatchDone(<<>>, <<>>)) /\ NoCalls
         [] OTHER ->
              /\ modCalls' = [i \in 1..Len(prompts.v) |->
                                GuardrailCommand(prompts.v[i])]
              /\ modOutcomes' = [i \in 1..Len(prompts.v) |-> Unsettled]
              /\ log' = [i \in 1..Len(prompts.v) |->
                           Entry("moderation_call", i)]
              /\ pc' = "batch"
              /\ UNCHANGED <<response, modSettled, fwdCalls, fwdOutcomes, fetched>>
  /\ UNCHANGED event

\* One item's moderation call settles while the handler awaits Promise.all.
\* The item's callback builds its result, or throws: a throw rejects
\* Promise.all at once and the handler answers from its catch block; the
\* last fulfilment lets the handler answer with every result.
BatchItemSettles ==
  /\ pc = "batch"
  /\ \E i \in Pending, outcome \in ModerationOutcomes :
       LET outcomes == [modOutcomes EXCEPT ![i] = outcome]
           order == SettleOrder(log) \o <<i>>
           prompts == [j \in 1..Len(modCalls) |-> modCalls[j].text]
           values == [j \in 1..Len(modCalls) |->
                        ItemResult(j - 1, prompts[j],
                                   validatePrompt(outcomes[j]))] IN
       /\ modOutcomes' = outcomes
       /\ modSettled' = modSettled \cup {i}
       /\ log' = Append(log, Entry("moderation_settled", i))
       /\ IF ItemThrows(prompts[i])
          THEN Respond(BatchFault)
          ELSE IF Pending = {i}
          THEN Respond(BatchDone(prompts, PromiseAll(values, order)))
          ELSE UNCHANGED <<pc, response>>
  /\ UNCHANGED <<event, route, modCalls, fwdOutcomes, fetched>>

\* A batch that forwards the request once an item is allowed.
handleBatchValidation_settled_forwarding ==
  /\ BatchItemSettles
  /\ fwdCalls' =
       IF \E i \in modSettled' \ modSettled :
            Truthy(Get(validatePrompt(modOutcomes'[i]), "allowed"))
       THEN Append(fwdCalls, FetchRequest(event))
       ELSE fwdCalls

\* The batch callback never calls the forwarding client.
handleBatchValidation_settled ==
  /\ BatchItemSettles
  /\ UNCHANGED fwdCalls

\* A moderation call that settles after Promise.all has rejected: its
\* callback runs to its end and nothing reads the result.
handleBatchValidation_late ==
  /\ pc = "done"
  /\ \E i \in Pending, outcome \in ModerationOutcomes :
       /\ modOutcomes' = [modOutcomes EXCEPT ![i] = outcome]
       /\ modSettled' = modSettled \cup {i}
       /\ log' = Append(log, Entry("moderation_settled", i))
  /\ UNCHANGED <<event, pc, route, response, modCalls, fwdCalls, fwdOutcomes,
                 fetched>>

Next ==
  \/ handler_throws
  \/ handler_preflight
  \/ handler_notfound
  \/ handleHealth
  \/ handleConfig
  \/ handleValidation
  \/ handleValidation_validated
  \/ handleValidation_fetched
  \/ handleValidation_forwarded
  \/ handleBatchValidation
  \/ handleBatchValidation_settled
  \/ handleBatchValidation_late

Spec == Init /\ [][Next]_vars

\* ------------------------------------------------------------------------
\* Properties
\* ------------------------------------------------------------------------
\* The response body as structured data.
Payload == JSONparse(response.body).val

\* The request body as structured data, and the fields the pipelines read.
RequestBody == ParseBody(event)
RequestPrompt == Get(RequestBody.body, "prompt")
RequestPrompts == Get(RequestBody.body, "prompts")

\* What the decision service reported for moderation call i.
Reported(i) == i \in modSettled /\ ~modOutcomes[i].threw
ReportsIntervention(i) ==
  /\ Reported(i)
  /\ Get(modOutcomes[i].value, "action") = Str("GUARDRAIL_INTERVENED")
ReportsNoIntervention(i) == Reported(i) /\ ~ReportsIntervention(i)
ModerationFault(i) == i \in modSettled /\ modOutcomes[i].threw

\* Position of the first entry of the log with the given operation.
Position(op) == CHOOSE n \in 1..Len(log) : log[n].op = op /\ \A m \in 1..(n - 1) : log[m].op # op
Logged(op) == \E n \in 1..Len(log) : log[n].op = op

\* C1: in a single validation, once the decision service has reported
\* GUARDRAIL_INTERVENED the request is answered with status 422 and the
\* forwarding client has not been called.
C1_BlockedIs422 ==
  (route = "validate" /\ ReportsIntervention(1))
    => /\ pc = "done"
       /\ response.statusCode = 422
       /\ fwdCalls = <<>>

C1_Witness ==
  /\ route = "validate"
  /\ ReportsIntervention(1)
  /\ response.statusCode = 422
  /\ Get(Get(Payload, "details"), "reason")
       = Str("HARMFUL_CONTENT: violence, undefined: unknown")

\* C2: in a single validation, once the moderation call has thrown the
\* request is answered with status 422 and details.reason "Validation
\* service unavailable"; one moderation call was made and the forwarding
\* client has not been called.
C2_FaultFailsClosed ==
  (route = "validate" /\ ModerationFault(1))
    => /\ pc = "done"
       /\ response.statusCode = 422
       /\ Get(Get(Payload, "details"), "reason")
            = Str("Validation service unavailable")
       /\ Len(modCalls) = 1
       /\ fwdCalls = <<>>

C2_Witness ==
  /\ route = "validate"
  /\ ModerationFault(1)
  /\ pc = "done"
  /\ Get(Payload, "allowed") = Bool(FALSE)

\* C3: in a single validation with a non-empty string prompt, once the
\* decision service has reported no intervention the forwarding client has
\* been called exactly once, after the moderation call settled, and the
\* response, once returned, is the forwarding client's envelope for what
\* fetch settled with.
C3_AllowedForwardsOnce ==
  (route = "validate" /\ ReportsNoIntervention(1))
    => /\ RequestPrompt.k = "str" /\ RequestPrompt.v # ""
       /\ pc \in {"forwarding", "reading", "done"}
       /\ Len(fwdCalls) = 1
       /\ modCalls = <<GuardrailCommand(RequestPrompt)>>
       /\ Position("moderation_call") < Position("moderation_settled")
       /\ Position("moderation_settled") < Position("forward_call")
       /\ pc = "done" =>
            /\ Len(fwdOutcomes) = 1
            /\ response = forwardToVideoService(fwdOutcomes[1])

C3_Witness ==
  /\ route = "validate"
  /\ ReportsNoIntervention(1)
  /\ pc = "done"
  /\ Len(fwdCalls) = 1
  /\ response.statusCode = 500
  /\ Payload = Obj(<<Member("message", Str("Bad Gateway"))>>)

\* C4: a single validation of the body {"prompt": ""} is answered with
\* status 400 and the empty-prompt message, which is not the
\* prompt-required message, and no moderation call is made.
C4_EmptyPromptMessage ==
  (route = "validate" /\ pc = "done"
     /\ Get(event, "body") = Str("{\"prompt\":\"\"}"))
    => /\ response.statusCode = 400
       /\ Get(Payload, "message")
            = Str("Invalid request: prompt cannot be empty")
       /\ modCalls = <<>>

\* C5: a single validation whose body parses to a value with no prompt, or
\* with a prompt that is not a string, and a batch validation whose body
\* parses to a value whose prompts is not an array, is answered with status
\* 400 and calls neither collaborator.
C5_InputErrorsStayLocal ==
  /\ route = "validate" =>
       LET input == RequestBody IN
       (~input.fault /\ Get(input.body, "prompt").k # "str")
         => /\ pc = "done"
            /\ response.statusCode = 400
            /\ modCalls = <<>>
            /\ fwdCalls = <<>>
  /\ route = "batch" =>
       LET input == RequestBody IN
       (~input.fault /\ Get(input.body, "prompts").k # "arr")
         => /\ pc = "done"
            /\ response.statusCode = 400
            /\ modCalls = <<>>
            /\ fwdCalls = <<>>

C5_Witness ==
  /\ route = "validate"
  /\ RequestPrompt = Num(5)
  /\ response.statusCode = 400

\* C6: a batch validation never calls the forwarding client, whatever the
\* verdicts of its items.
C6_BatchNeverForwards ==
  route = "batch" => fwdCalls = <<>>

C6_Witness ==
  /\ route = "batch"
  /\ pc = "done"
  /\ response.statusCode = 200
  /\ LET summary == Get(Payload, "summary") IN
       Get(summary, "allowed").v >= 1 /\ Get(summary, "blocked").v >= 1

\* The shape of a batch response for N items.
BatchShape(payload, N) ==
  LET results == Get(payload, "results")
      summary == Get(payload, "summary") IN
  /\ results.k = "arr"
  /\ Len(results.v) = N
  /\ Get(summary, "total") = Num(N)
  /\ Get(summary, "allowed").k = "num"
  /\ Get(summary, "blocked").k = "num"
  /\ Get(summary, "allowed").v + Get(summary, "blocked").v = N
  /\ \A i \in 0..(N - 1) : Get(results.v[i + 1], "index") = Num(i)

AllStrings(items) == \A i \in 1..Len(items) : items[i].k = "str"

\* C7 as stated: for any array of N items passed as prompts, the response
\* has N results, total N, allowed + blocked = N and results[i].index = i.
C7_AnyArray ==
  (route = "batch" /\ pc = "done") =>
    LET prompts == RequestPrompts IN
    prompts.k = "arr" => BatchShape(Payload, Len(prompts.v))

\* C7: for any array of N strings passed as prompts, the empty array
\* included, the response has N results, total N, allowed + blocked = N and
\* results[i].index = i.
C7_StringArray ==
  (route = "batch" /\ pc = "done") =>
    LET prompts == RequestPrompts IN
    (prompts.k = "arr" /\ AllStrings(prompts.v))
      => BatchShape(Payload, Len(prompts.v))

C7_Witness ==
  /\ route = "batch"
  /\ pc = "done"
  /\ Len(modCalls) = MaxBatch
  /\ AllStrings(RequestPrompts.v)
  /\ Get(Get(Payload, "summary"), "blocked") = Num(1)

\* C8: in a batch validation every moderation call is issued before any of
\* them settles, and in whatever order they settle, results[i] carries the
\* verdict the moderation client gave for item i and the preview of item i.
C8_ResultsInInputOrder ==
  /\ route = "batch" =>
       \A n, m \in 1..Len(log) :
         (log[n].op = "moderation_call" /\ log[m].op = "moderation_settled")
           => n < m
  /\ (route = "batch" /\ pc = "done" /\ response.statusCode = 200) =>
       LET results == Get(Payload, "results").v
           prompts == RequestPrompts.v IN
       /\ Len(results) = Len(prompts)
       /\ \A i \in 1..Len(results) :
            /\ Reported(i) \/ ModerationFault(i)
            /\ Get(results[i], "allowed")
                 = Bool(ReportsNoIntervention(i))
            /\ Get(results[i], "reason")
                 = Get(validatePrompt(modOutcomes[i]), "reason")
            /\ modCalls[i].text = prompts[i]
            /\ Get(results[i], "prompt") = Str(Preview(prompts[i].v))

C8_Witness ==
  /\ route = "batch"
  /\ pc = "done"
  /\ response.statusCode = 200
  /\ Len(modCalls) >= 2
  /\ SettleOrder(log)[1] = Len(modCalls)
  /\ ReportsNoIntervention(1)
  /\ ~ReportsNoIntervention(Len(modCalls))
  /\ modCalls[1].text # modCalls[Len(modCalls)].text

\* C9: every request whose method is OPTIONS is answered with status 200
\* and body {"message":"OK"} without being dispatched and without a call to
\* either collaborator.
C9_OptionsAlwaysPreflight ==
  (pc # "start" /\ ~Throws(event) /\ Method(event) = Str("OPTIONS"))
    => /\ route = "preflight"
       /\ pc = "done"
       /\ response.statusCode = 200
       /\ response.body = "{\"message\":\"OK\"}"
       /\ modCalls = <<>>
       /\ fwdCalls = <<>>

\* C10: for every inbound event the handler returns a response envelope; no
\* fault leaves the handler.
C10_NoFaultEscapes ==
  /\ pc # "escaped"
  /\ pc = "done" => response.statusCode \in 100..599

\* The four routes the not-found answer lists.
KnownRoutes ==
  <<Str("POST /validate - Validate and forward to video service"),
    Str("POST /validate-batch - Batch validation (returns results only)"),
    Str("GET /health - Service health check"),
    Str("GET /config - View current configuration")>>

\* C11: a request whose method is not OPTIONS is dispatched to single
\* validation exactly for (POST, /validate), to batch validation exactly for
\* (POST, /validate-batch), to health exactly for (GET, /health), to config
\* exactly for (GET, /config); every other pair is answered with status 404
\* and the list of the four routes, and calls no collaborator.
C11_DispatchExact ==
  (pc # "start" /\ ~Throws(event) /\ Method(event) # Str("OPTIONS")) =>
    LET m == Method(event)
        p == Path(event)
        known == {<<Str("POST"), Str("/validate")>>,
                  <<Str("POST"), Str("/validate-batch")>>,
                  <<Str("GET"), Str("/health")>>,
                  <<Str("GET"), Str("/config")>>} IN
    /\ route = "validate" <=> (m = Str("POST") /\ p = Str("/validate"))
    /\ route = "batch" <=> (m = Str("POST") /\ p = Str("/validate-batch"))
    /\ route = "health" <=> (m = Str("GET") /\ p = Str("/health"))
    /\ route = "config" <=> (m = Str("GET") /\ p = Str("/config"))
    /\ <<m, p>> \notin known =>
         /\ route = "notfound"
         /\ pc = "done"
         /\ response.statusCode = 404
         /\ Get(Payload, "availableEndpoints") = Arr(KnownRoutes)
         /\ modCalls = <<>>
         /\ fwdCalls = <<>>

C11_Witness ==
  /\ route = "notfound"
  /\ Method(event) = Str("GET")
  /\ Path(event) = Str("/validate")
  /\ response.statusCode = 404

\* The substring test s.includes(word).
Includes(s, word) ==
  \E i \in 1..(Len(s) - Len(word) + 1) : SubSeq(s, i, i + Len(word) - 1) = word

\* C12: every response carries Content-Type application/json,
\* Access-Control-Allow-Origin *, Access-Control-Allow-Methods
\* "POST, GET, OPTIONS" and an Access-Control-Allow-Headers value that names
\* both Content-Type and Authorization.
C12_FixedHeaders ==
  pc = "done" =>
    /\ DOMAIN response.headers =
         {"Content-Type", "Access-Control-Allow-Origin",
          "Access-Control-Allow-Headers", "Access-Control-Allow-Methods"}
    /\ response.headers["Content-Type"] = "application/json"
    /\ response.headers["Access-Control-Allow-Origin"] = "*"
    /\ response.headers["Access-Control-Allow-Methods"] = "POST, GET, OPTIONS"
    /\ Includes(response.headers["Access-Control-Allow-Headers"],
                "Content-Type")
    /\ Includes(response.headers["Access-Control-Allow-Headers"],
                "Authorization")

\* C13: when fetch fails to connect, the single validation is answered with
\* the fixed 502 envelope after one fetch; and a response with status 502
\* is only ever returned by a single validation whose verdict was allowed
\* and whose one forwarding call has settled.
C13_DownstreamUnavailable ==
  /\ (pc = "done" /\ Len(fwdOutcomes) = 1 /\ fwdOutcomes[1].threw) =>
       /\ response.statusCode = 502
       /\ response.body =
            "{\"success\":false,\"message\":\"Video service unavailable\","
              \o "\"error\":\"Failed to connect to video generation service\"}"
       /\ Len(fwdCalls) = 1
  /\ (pc = "done" /\ response.statusCode = 502) =>
       /\ route = "validate"
       /\ ReportsNoIntervention(1)
       /\ Len(modCalls) = 1
       /\ Len(fwdCalls) = 1
       /\ Len(fwdOutcomes) = 1

C13_Witness ==
  /\ pc = "done"
  /\ Len(fwdOutcomes) = 1
  /\ fwdOutcomes[1].threw
  /\ response.statusCode = 502
  /\ Get(Payload, "message") = Str("Video service unavailable")

\* C14: a single validation whose body is not JSON, or parses to null, is
\* answered from the pipeline's own catch block with status 500 and the
\* fixed body (success false, allowed false, the generic message, no detail
\* of the fault), and calls neither collaborator.
C14_ValidationFaultIs500 ==
  route = "validate" =>
    LET input == RequestBody IN
    input.fault =>
      /\ pc = "done"
      /\ response.statusCode = 500
      /\ response.body =
           "{\"success\":false,\"allowed\":false,"
             \o "\"message\":\"Unable to validate content at this time\","
             \o "\"error\":\"Internal server error\"}"
      /\ modCalls = <<>>
      /\ fwdCalls = <<>>

C14_Witness ==
  /\ route = "validate"
  /\ Get(event, "body") = Str("null")
  /\ response.statusCode = 500
  /\ Get(Payload, "allowed") = Bool(FALSE)

\* A header name in lower case.
UpperLetters == "ABCDEFGHIJKLMNOPQRSTUVWXYZ"
LowerLetters == "abcdefghijklmnopqrstuvwxyz"

LowerChar(c) ==
  IF \E n \in 1..26 : SubSeq(UpperLetters, n, n) = c
  THEN LET n == CHOOSE n \in 1..26 : SubSeq(UpperLetters, n, n) = c IN
       SubSeq(LowerLetters, n, n)
  ELSE c

RECURSIVE LowerCase(_)
LowerCase(s) ==
  IF s = "" THEN ""
  ELSE LowerChar(SubSeq(s, 1, 1)) \o LowerCase(SubSeq(s, 2, Len(s)))

\* The inbound header map has an authorization header, in any letter case.
InboundAuthorization ==
  LET headers == Get(event, "headers") IN
  /\ headers.k = "obj"
  /\ \E n \in 1..Len(headers.v) :
       LowerCase(headers.v[n].key) = "authorization"

\* C15: the forwarding client sends one POST to the configured endpoint
\* with the inbound raw body as its body and Content-Type application/json;
\* the request carries an Authorization header exactly when the inbound
\* header map has an authorization header in any letter case, and carries
\* no other header.
C15_ForwardedRequest ==
  (route = "validate" /\ fwdCalls # <<>>) =>
    LET request == fwdCalls[1] IN
    /\ Len(fwdCalls) = 1
    /\ request.url = videoServiceUrl
    /\ request.method = "POST"
    /\ request.body = Get(event, "body")
    /\ Get(request.headers, "Content-Type") = Str("application/json")
    /\ HasKey(request.headers, "Authorization") <=> InboundAuthorization
    /\ \A n \in 1..Len(request.headers.v) :
         request.headers.v[n].key \in {"Content-Type", "Authorization"}

\* C16: when the downstream service answers, the response has the
\* downstream status code, and its body is the downstream body as
\* structured data when that body is JSON and {message: <raw text>}
\* otherwise.
C16_DownstreamRelayed ==
  (pc = "done" /\ Len(fwdOutcomes) = 1 /\ ~fwdOutcomes[1].threw) =>
    LET answer == fwdOutcomes[1]
        downstream == JSONparse(answer.text)
        payload == Payload IN
    /\ response.statusCode = answer.status
    /\ downstream.ok => payload = downstream.val
    /\ ~downstream.ok => payload = Obj(<<Member("message", Str(answer.text))>>)

C16_Witness ==
  /\ pc = "done"
  /\ Len(fwdOutcomes) = 1
  /\ fwdOutcomes[1] = Answered(502, "{ \"success\" : true }")
  /\ response.statusCode = 502
  /\ response.body = "{\"success\":true}"

\* C17: in a batch of strings, an item whose moderation call threw is
\* reported blocked with reason "Validation service unavailable", every
\* other item is reported with what the decision service answered for it
\* (allowed exactly when it reported no intervention), and the batch is
\* answered with status 200.
C17_ItemsIndependent ==
  (route = "batch" /\ pc = "done"
     /\ \E i \in modSettled : modOutcomes[i].threw) =>
    LET prompts == RequestPrompts.v IN
    AllStrings(prompts) =>
      LET results == Get(Payload, "results").v IN
      /\ response.statusCode = 200
      /\ Len(results) = Len(prompts)
      /\ \A i \in 1..Len(prompts) :
           IF ModerationFault(i)
           THEN /\ Get(results[i], "allowed") = Bool(FALSE)
                /\ Get(results[i], "reason")
                     = Str("Validation service unavailable")
           ELSE /\ Reported(i)
                /\ Get(results[i], "allowed")
                     = Bool(Get(modOutcomes[i].value, "action")
                              # Str("GUARDRAIL_INTERVENED"))
                /\ ReportsNoIntervention(i) =>
                     Get(results[i], "reason") = Str("Content approved")

C17_Witness ==
  /\ route = "batch"
  /\ pc = "done"
  /\ response.statusCode = 200
  /\ Len(modCalls) >= 2
  /\ ModerationFault(1)
  /\ ReportsNoIntervention(2)
  /\ Get(Get(Payload, "results").v[2], "allowed") = Bool(TRUE)

\* C18: every verdict the moderation client returns with allowed false has
\* a non-empty reason, whatever the decision service answered (several
\* assessments, none, no list) or threw; a verdict with allowed true is
\* returned only when the decision service answered without intervention.
C18_BlockedHasReason ==
  \A i \in modSettled :
    LET verdict == validatePrompt(modOutcomes[i])
        allowed == Get(verdict, "allowed")
        reason == Get(verdict, "reason") IN
    /\ allowed.k = "bool"
    /\ ~allowed.v => (reason.k = "str" /\ Len(reason.v) > 0)
    /\ allowed.v => ReportsNoIntervention(i)

C18_Witness ==
  /\ route = "validate"
  /\ pc = "done"
  /\ 1 \in modSettled
  /\ modOutcomes[1] = Intervened(Arr(<<>>))
  /\ Get(Get(Payload, "details"), "reason") = Str("Policy violation")

\* The fields through which an event presents its method and path.
HttpMethodField == Get(event, "httpMethod")
MethodField == Get(event, "method")
ContextMethodField ==
  OptGet(OptGet(Get(event, "requestContext"), "http"), "method")
PathField == Or(Get(event, "path"), Get(event, "rawPath"))

\* C19 as stated: a request presenting POST through httpMethod or method,
\* and /validate through path or rawPath, is dispatched to single
\* validation.
C19_MethodField ==
  (pc # "start" /\ ~Throws(event)
     /\ Or(HttpMethodField, MethodField) = Str("POST")
     /\ PathField = Str("/validate"))
    => route = "validate"

\* C19: a request presenting POST through httpMethod or
\* requestContext.http.method, and /validate through path or rawPath, is
\* dispatched to single validation.
C19_ContextMethodField ==
  (pc # "start" /\ ~Throws(event)
     /\ Or(HttpMethodField, ContextMethodField) = Str("POST")
     /\ PathField = Str("/validate"))
    => route = "validate"

C19_Witness ==
  /\ route = "validate"
  /\ HttpMethodField = Undef
  /\ ContextMethodField = Str("POST")
  /\ Get(event, "path") = Undef
  /\ Get(event, "rawPath") = Str("/validate")
  /\ pc = "done"

\* C20: in the results of a batch, a prompt longer than 100 characters
\* appears as its first 100 characters followed by "...", and a prompt of
\* 100 characters or fewer, the empty one included, appears as it is.
C20_PreviewCut ==
  (route = "batch" /\ pc = "done" /\ response.statusCode = 200) =>
    LET results == Get(Payload, "results").v
        prompts == RequestPrompts.v IN
    \A i \in 1..Len(prompts) :
      LET prompt == prompts[i].v
          shown == Get(results[i], "prompt") IN
      /\ Len(prompt) > 100 =>
           /\ shown.k = "str"
           /\ Len(shown.v) = 103
           /\ SubSeq(shown.v, 1, 100) = SubSeq(prompt, 1, 100)
           /\ SubSeq(shown.v, 101, 103) = "..."
      /\ Len(prompt) <= 100 => shown = Str(prompt)

C20_Witness ==
  /\ route = "batch"
  /\ pc = "done"
  /\ response.statusCode = 200
  /\ Len(modCalls) = 1
  /\ Len(modCalls[1].text.v) = 102
  /\ Get(Get(Payload, "results").v[1], "prompt") = Str(Repeat("a", 100) \o "...")

\* Every collaborator call issued so far has settled.
AllSettled == Pending = {} /\ Len(fwdOutcomes) = Len(fwdCalls)

\* The invocation is over: the handler returned a response or threw.
Returned == pc \in {"done", "escaped"}

\* C21: an invocation is only ever over with a response returned, so a
\* request whose calls all settle is answered; a single
\* validation issues at most one moderation call and one forwarding call, a
\* batch of N items issues exactly N moderation calls; and a response is
\* returned only when every call the request issued has settled, so a call
\* that never returns keeps the request from completing.
C21_AnsweredWhenAllSettled ==
  /\ Returned => (pc = "done" /\ response.statusCode # 0)
  /\ route = "validate" => (Len(modCalls) <= 1 /\ Len(fwdCalls) <= 1)
  /\ (route = "batch" /\ pc # "start") =>
       LET prompts == RequestPrompts IN
       prompts.k = "arr" => Len(modCalls) = Len(prompts.v)
  /\ pc = "done" => AllSettled

====
